---- MODULE Spec2Model ----
(***************************************************************************)
(* Model of attach/attach.py: the `attach` context manager that injects a  *)
(* namespace (an ordered dict) into the caller's globals on __enter__ and  *)
(* reconciles the differences back into the namespace on __exit__.         *)
(*                                                                         *)
(* A dict is a sequence of entries [k |-> key, v |-> value] in insertion   *)
(* order (Python dicts iterate in insertion order).  A key is a tuple of   *)
(* characters, so that key.startswith('_') is computed from the key.  A    *)
(* value is an object identity: `is not` on line 88 compares identities;   *)
(* heap gives the content of each object.                                  *)
(***************************************************************************)
EXTENDS Integers, Sequences, FiniteSets, TLC

\* ---------------------------------------------------------------- bounds
MaxOps == 3          \* statements the caller runs (block body and outside)
MaxDirect == 1       \* of which statements on the namespace object itself
MaxBegins == 2       \* `with attach(n)` statements the caller runs
MaxNestedOps == 1    \* statements the caller runs when it uses two attach objects

\* ------------------------------------------------------------ vocabulary
Keys == {<<"g">>, <<"a">>, <<"_", "u">>}
\* object identities: the code only tests two of them for `is not`, so an
\* object bound before the session (1) and another one (2) are enough
Vals == {1, 2}
Sess == {"A", "B"}          \* attach objects
Callers == {"A"}            \* attach objects the caller uses in Spec
Excs == {"None", "E"}       \* exc_val handed to __exit__
Contents == {"x", "y"}      \* what an object holds, compared by == and !=

\* ------------------------------------------------------- dict operations
Entry(key, value) == [k |-> key, v |-> value]

DictKeys(d) == {d[i].k : i \in 1..Len(d)}

Has(d, key) == key \in DictKeys(d)

Get(d, key) == d[CHOOSE i \in 1..Len(d) : d[i].k = key].v

\* d[key] = value: rebinding keeps the key's position, a new key is appended
SetItem(d, key, value) ==
    IF Has(d, key)
    THEN [i \in 1..Len(d) |-> IF d[i].k = key THEN Entry(key, value) ELSE d[i]]
    ELSE Append(d, Entry(key, value))

\* del d[key]
DelItem(d, key) == SelectSeq(d, LAMBDA e : e.k # key)

\* same key set and same value identity under every key
SameBindings(d1, d2) ==
    /\ DictKeys(d1) = DictKeys(d2)
    /\ \A key \in DictKeys(d1) : Get(d1, key) = Get(d2, key)

\* key.startswith('_')
StartsWithUnderscore(key) == Len(key) > 0 /\ key[1] = "_"

\* ---------------------------------------------------------------- state
VARIABLES
    globals,            \* the caller's f_globals
    namespace,          \* namespace[s]: self.namespace of attach object s
    skip_underscored,   \* skip_underscored[s]: self.skip_underscored
    backup,             \* backup[s]: self.backup
    active,             \* active[s]: the caller is inside `with s:`
    heap,               \* heap[o]: the content of object o
    gBegin,             \* history: globals just before __enter__ of the
                        \*   session s is in
    nBegin,             \* history: namespace[s] just before that __enter__
    obs,                \* history: what the last __enter__/__exit__ call did
    retry,              \* history: keys left to remove from the namespace
                        \*   after a collision, before the caller retries
    log,                \* history: the begins and ends of the sessions since
                        \*   no session was active
    block,              \* history: what the caller's statements did since
                        \*   the first of the active sessions began
    ops,                \* statements run so far
    direct,             \* statements on the namespace object run so far
    begins              \* with-statements entered so far

vars == <<globals, namespace, skip_underscored, backup, active, heap,
          gBegin, nBegin, obs, retry, log, block, ops, direct, begins>>

\* no statement has run inside a block
NoBlock == [dirty |-> FALSE, deleted |-> {}, rebound |-> {}, mutated |-> {}]

NoObs == [op |-> "none", sess |-> "A", raised |-> FALSE, pending |-> "None",
          cause |-> "None", seen |-> "ok", gPre |-> <<>>, nPre |-> <<>>,
          gBegin |-> <<>>, nBegin |-> <<>>, retried |-> FALSE,
          gBegins |-> [s \in Sess |-> <<>>], nBegins |-> [s \in Sess |-> <<>>],
          log |-> <<>>, block |-> NoBlock, afterEnd |-> FALSE,
          key |-> <<>>, result |-> "none", value |-> 0]

NoRetry == [armed |-> FALSE, sess |-> "A", keys |-> {}]

\* an entry of log: session s began, or ended and its __exit__ raised or not
Event(op, s, raised) == [op |-> op, sess |-> s, raised |-> raised]

\* ------------------------------------------------------------- __enter__
\* the loop of lines 62-69 leaving out the last item
RECURSIVE EnterLoopShort(_, _, _)
EnterLoopShort(ns, g, i) ==
    IF i >= Len(ns) THEN [g |-> g, raised |-> FALSE]
    ELSE IF Has(g, ns[i].k) THEN [g |-> g, raised |-> TRUE]
    ELSE EnterLoopShort(ns, SetItem(g, ns[i].k, ns[i].v), i + 1)

\* lines 62-69: the loop over self.namespace.items(), from item i on
RECURSIVE EnterLoop(_, _, _)
EnterLoop(ns, g, i) ==
    IF i > Len(ns) THEN [g |-> g, raised |-> FALSE]
    ELSE IF Has(g, ns[i].k) THEN [g |-> g, raised |-> TRUE]
    ELSE EnterLoop(ns, SetItem(g, ns[i].k, ns[i].v), i + 1)

\* line 60 as self.backup = {}
CopyNothing(g) == <<>>

\* line 60: self.backup = self.globals.copy()
CopyGlobals(g) == g

Enter(s) ==
    /\ ~active[s]
    /\ begins < MaxBegins
    /\ LET r == EnterLoop(namespace[s], globals, 1) IN
        /\ backup' = [backup EXCEPT ![s] = CopyGlobals(globals)]
        /\ globals' = r.g
        /\ active' = [active EXCEPT ![s] = ~r.raised]
        /\ obs' = [NoObs EXCEPT !.op = "begin", !.sess = s,
                                !.raised = r.raised,
                                !.seen = IF r.raised THEN "Collision" ELSE "ok",
                                !.gPre = globals, !.nPre = namespace[s],
                                !.retried = retry.armed /\ retry.sess = s
                                            /\ retry.keys = {},
                                !.afterEnd = obs.op = "end" /\ obs.sess = s]
        /\ retry' = IF r.raised
                    THEN [armed |-> TRUE, sess |-> s,
                          keys |-> DictKeys(namespace[s]) \cap DictKeys(globals)]
                    ELSE NoRetry
        /\ gBegin' = [gBegin EXCEPT ![s] = IF r.raised THEN <<>> ELSE globals]
        /\ nBegin' = [nBegin EXCEPT ![s] = IF r.raised THEN <<>> ELSE namespace[s]]
        /\ log' = IF r.raised THEN log ELSE Append(log, Event("begin", s, FALSE))
    /\ begins' = begins + 1
    /\ UNCHANGED <<namespace, skip_underscored, heap, block, ops, direct>>

\* -------------------------------------------------------------- __exit__
\* lines 73-75 left out
KeepAll(ns, g) == ns

\* lines 73-75: delete namespace attributes that are no longer in globals
DeleteMissing(ns, g) == SelectSeq(ns, LAMBDA e : e.k \in DictKeys(g))

\* line 83 with `or` for `and`
SkippedOr(skip, key) == skip \/ StartsWithUnderscore(key)

\* line 83 without the flag
SkippedAlways(skip, key) == StartsWithUnderscore(key)

\* lines 83-84 left out
SkippedNever(skip, key) == FALSE

\* line 83
Skipped(skip, key) == skip /\ StartsWithUnderscore(key)

\* line 85 as self.namespace.setdefault(key, self.globals[key])
SetDefault(ns, key, value) == IF Has(ns, key) THEN ns ELSE SetItem(ns, key, value)

\* line 85 as del self.namespace[key] followed by the assignment
Reinsert(ns, key, value) == Append(DelItem(ns, key), Entry(key, value))

\* line 85: self.namespace[key] = self.globals[key]
WriteBack(ns, key, value) == SetItem(ns, key, value)

\* line 88 with `is` for `is not`
Is(cur, old) == cur = old

\* line 88 with `!=` for `is not`
NotEqual(cur, old) == heap[cur] # heap[old]

\* line 88: self.globals[key] is not self.backup[key]
IsNot(cur, old) == cur # old

\* lines 79-90 raising only after the loop has seen every key
RECURSIVE ExitLoopAll(_, _, _, _, _)
ExitLoopAll(g, bk, ns, skip, i) ==
    IF i > Len(g) THEN [ns |-> ns, raised |-> FALSE]
    ELSE LET key == g[i].k IN
        IF ~Has(bk, key)
        THEN IF Skipped(skip, key)
             THEN ExitLoopAll(g, bk, ns, skip, i + 1)
             ELSE ExitLoopAll(g, bk, WriteBack(ns, key, g[i].v), skip, i + 1)
        ELSE IF IsNot(g[i].v, Get(bk, key))
             THEN [ns |-> ExitLoopAll(g, bk, ns, skip, i + 1).ns, raised |-> TRUE]
             ELSE ExitLoopAll(g, bk, ns, skip, i + 1)

\* lines 79-90: the loop over self.globals.keys(), from key i on
RECURSIVE ExitLoop(_, _, _, _, _)
ExitLoop(g, bk, ns, skip, i) ==
    IF i > Len(g) THEN [ns |-> ns, raised |-> FALSE]
    ELSE LET key == g[i].k IN
        IF ~Has(bk, key)
        THEN IF Skipped(skip, key)
             THEN ExitLoop(g, bk, ns, skip, i + 1)
             ELSE ExitLoop(g, bk, WriteBack(ns, key, g[i].v), skip, i + 1)
        ELSE IF IsNot(g[i].v, Get(bk, key))
             THEN [ns |-> ns, raised |-> TRUE]
             ELSE ExitLoop(g, bk, ns, skip, i + 1)

\* lines 94-95 without the clear(): self.globals.update(self.backup)
Update(g, bk) ==
    [i \in 1..Len(g) |-> IF Has(bk, g[i].k) THEN Entry(g[i].k, Get(bk, g[i].k))
                                            ELSE g[i]]
        \o SelectSeq(bk, LAMBDA e : ~Has(g, e.k))

\* lines 93-95 left out
NoRestore(g, bk) == g

\* lines 93-95: self.globals.clear(); self.globals.update(self.backup)
Restore(g, bk) == bk

\* line 90: raise RuntimeError(error_msg) from exc_val
Cause(exc_val) == exc_val

\* line 99 returning True
ExitReturnTrue == TRUE

\* line 99
ExitReturn == FALSE

\* what the caller of the with-statement observes
Seen(raised, ret, exc_val) ==
    IF raised THEN "ImmutableGlobal"
    ELSE IF exc_val # "None" /\ ~ret THEN exc_val
    ELSE "ok"

Exit(s, exc_val) ==
    /\ active[s]
    /\ LET r == ExitLoop(globals, backup[s], DeleteMissing(namespace[s], globals),
                         skip_underscored[s], 1) IN
        /\ namespace' = [namespace EXCEPT ![s] = r.ns]
        /\ globals' = Restore(globals, backup[s])
        /\ obs' = [op |-> "end", sess |-> s, raised |-> r.raised,
                   pending |-> exc_val,
                   cause |-> IF r.raised THEN Cause(exc_val) ELSE "None",
                   seen |-> Seen(r.raised, ExitReturn, exc_val),
                   gPre |-> globals, nPre |-> namespace[s],
                   gBegin |-> gBegin[s], nBegin |-> nBegin[s],
                   retried |-> FALSE,
                   gBegins |-> gBegin, nBegins |-> nBegin,
                   log |-> Append(log, Event("end", s, r.raised)),
                   block |-> block, afterEnd |-> FALSE,
                   key |-> <<>>, result |-> "none", value |-> 0]
    /\ active' = [active EXCEPT ![s] = FALSE]
    /\ IF \E t \in Sess \ {s} : active[t]
       THEN /\ log' = obs'.log
            /\ UNCHANGED <<gBegin, nBegin, block>>
       ELSE /\ log' = <<>>
            /\ gBegin' = [t \in Sess |-> <<>>]
            /\ nBegin' = [t \in Sess |-> <<>>]
            /\ block' = NoBlock
    /\ retry' = NoRetry
    /\ UNCHANGED <<skip_underscored, backup, heap, ops, direct, begins>>

\* ------------------------------------------------- the caller's statements
InBlock == \E s \in Sess : active[s]

\* the history of the block after one more statement, which deleted the keys
\* del from globals, bound the keys reb of globals to another object and
\* changed the objects mut in place
Ran(del, reb, mut) ==
    IF InBlock
    THEN [dirty |-> TRUE, deleted |-> block.deleted \cup del,
          rebound |-> block.rebound \cup reb,
          mutated |-> block.mutated \cup mut]
    ELSE block

\* `key = value` at module level
GlobalSet(key, value) ==
    /\ ops < MaxOps
    /\ globals' = SetItem(globals, key, value)
    /\ obs' = NoObs
    /\ retry' = NoRetry
    /\ block' = Ran({}, IF Has(globals, key) /\ Get(globals, key) # value
                        THEN {key} ELSE {}, {})
    /\ ops' = ops + 1
    /\ UNCHANGED <<namespace, skip_underscored, backup, active, heap, gBegin, nBegin,
                   log, direct, begins>>

\* `del key` at module level
GlobalDel(key) ==
    /\ ops < MaxOps
    /\ Has(globals, key)
    /\ globals' = DelItem(globals, key)
    /\ obs' = NoObs
    /\ retry' = NoRetry
    /\ block' = Ran({key}, {}, {})
    /\ ops' = ops + 1
    /\ UNCHANGED <<namespace, skip_underscored, backup, active, heap, gBegin, nBegin,
                   log, direct, begins>>

\* `n.key = value` (DotDict.__setattr__ = dict.__setitem__)
NamespaceSet(s, key, value) ==
    /\ ops < MaxOps
    /\ direct < MaxDirect
    /\ namespace' = [namespace EXCEPT ![s] = SetItem(@, key, value)]
    /\ obs' = NoObs
    /\ retry' = NoRetry
    /\ ops' = ops + 1
    /\ direct' = direct + 1
    /\ block' = Ran({}, {}, {})
    /\ UNCHANGED <<globals, skip_underscored, backup, active, heap, gBegin, nBegin,
                   log, begins>>

\* `del n.key` (DotDict.__delattr__ = dict.__delitem__)
NamespaceDel(s, key) ==
    /\ ops < MaxOps
    /\ direct < MaxDirect
    /\ Has(namespace[s], key)
    /\ namespace' = [namespace EXCEPT ![s] = DelItem(@, key)]
    /\ obs' = NoObs
    /\ retry' = IF retry.armed /\ retry.sess = s /\ key \in retry.keys
                THEN [retry EXCEPT !.keys = @ \ {key}]
                ELSE NoRetry
    /\ ops' = ops + 1
    /\ direct' = direct + 1
    /\ block' = Ran({}, {}, {})
    /\ UNCHANGED <<globals, skip_underscored, backup, active, heap, gBegin, nBegin,
                   log, begins>>

\* a statement that changes object o in place, such as o.append(...)
Mutate(o) ==
    /\ ops < MaxOps
    /\ \E c \in Contents \ {heap[o]} : heap' = [heap EXCEPT ![o] = c]
    /\ obs' = NoObs
    /\ retry' = NoRetry
    /\ block' = Ran({}, {}, {o})
    /\ ops' = ops + 1
    /\ UNCHANGED <<globals, namespace, skip_underscored, backup, active, gBegin,
                   nBegin, log, direct, begins>>

\* ------------------------------------------------------- specification
\* Namespace(...) constructions: up to two attributes, in either order, each
\* bound to object 1
InitNamespaces ==
    {<<>>} \cup {<<Entry(k1, 1)>> : k1 \in Keys}
           \cup {<<Entry(kk[1], 1), Entry(kk[2], 1)>> :
                    kk \in {p \in Keys \X Keys : p[1] # p[2]}}

\* the module's globals before the first with-statement: nothing, or the one
\* global of line 104, bound to object 1
InitGlobals == {<<>>, <<Entry(<<"g">>, 1)>>}

\* before the first with-statement: no attach object has been entered
InitIdle ==
    /\ globals \in InitGlobals
    /\ backup = [s \in Sess |-> <<>>]
    /\ active = [s \in Sess |-> FALSE]
    /\ gBegin = [s \in Sess |-> <<>>]
    /\ nBegin = [s \in Sess |-> <<>>]
    /\ obs = NoObs
    /\ retry = NoRetry
    /\ log = <<>>
    /\ block = NoBlock
    /\ ops = 0
    /\ direct = 0
    /\ begins = 0

\* one attach object on one namespace
InitOne ==
    /\ \E n \in InitNamespaces : namespace = [s \in Sess |-> IF s \in Callers THEN n ELSE <<>>]
    /\ \E b \in BOOLEAN : skip_underscored = [s \in Sess |-> IF s \in Callers THEN b ELSE TRUE]

Init ==
    /\ InitIdle
    /\ InitOne
    /\ heap = [o \in Vals |-> "x"]

Next ==
    \/ \E s \in Callers : Enter(s)
    \/ \E s \in Callers, e \in Excs : Exit(s, e)
    \/ \E key \in Keys, value \in Vals : GlobalSet(key, value)
    \/ \E key \in Keys : GlobalDel(key)
    \/ \E s \in Callers, key \in Keys, value \in Vals : NamespaceSet(s, key, value)
    \/ \E s \in Callers, key \in Keys : NamespaceDel(s, key)

Spec == Init /\ [][Next]_vars

\* --------------------------------------------- identity and equality
\* the objects hold any contents, and the caller also changes them in place;
\* the namespace is empty or has the one attribute a
InitHeap ==
    /\ InitIdle
    /\ \E n \in {<<>>, <<Entry(<<"a">>, 1)>>} :
          namespace = [s \in Sess |-> IF s \in Callers THEN n ELSE <<>>]
    /\ \E b \in BOOLEAN : skip_underscored = [s \in Sess |-> IF s \in Callers THEN b ELSE TRUE]
    /\ heap \in [Vals -> Contents]

NextHeap ==
    \/ \E s \in Callers : Enter(s)
    \/ \E s \in Callers, e \in Excs : Exit(s, e)
    \/ \E key \in Keys, value \in Vals : GlobalSet(key, value)
    \/ \E key \in Keys : GlobalDel(key)
    \/ \E o \in Vals : Mutate(o)

SpecHeap == InitHeap /\ [][NextHeap]_vars

\* ----------------------------------------------------- two sessions
\* two attach objects: one on a namespace that is empty or has the attribute
\* a, one on a namespace that is empty or has the attribute _u
InitTwo ==
    /\ \E na \in {<<>>, <<Entry(<<"a">>, 1)>>}, nb \in {<<>>, <<Entry(<<"_", "u">>, 1)>>} :
          namespace = [s \in Sess |-> IF s = "A" THEN na ELSE nb]
    /\ skip_underscored \in [Sess -> BOOLEAN]

InitNested ==
    /\ InitIdle
    /\ InitTwo
    /\ heap = [o \in Vals |-> "x"]

\* the caller enters and leaves the with-statements of both attach objects
\* in any order, without a pending exception, and runs statements on globals
\* inside the blocks
NextNested ==
    \/ \E s \in Sess : Enter(s)
    \/ \E s \in Sess : Exit(s, "None")
    \/ \E key \in Keys, value \in Vals :
          ops < MaxNestedOps /\ InBlock /\ GlobalSet(key, value)
    \/ \E key \in Keys : ops < MaxNestedOps /\ InBlock /\ GlobalDel(key)

SpecNested == InitNested /\ [][NextNested]_vars

\* ------------------------------------------------------------- DotDict
\* attribute names the caller uses on a DotDict
DotKeys == {<<"a">>, <<"_", "u">>, <<"k", "e", "y", "s">>}

\* names that normal attribute lookup finds on a DotDict before __getattr__
\* is tried: the attributes of the class and of its base dict, of which the
\* model has keys (the one line 10 itself looks up)
ClassAttrs == {<<"k", "e", "y", "s">>}

\* d.item: the class attribute if there is one, else DotDict.__getattr__
GetAttr(d, item) ==
    IF item \in ClassAttrs THEN [result |-> "method", value |-> 0]
    ELSE IF ~Has(d, item) THEN [result |-> "KeyError", value |-> 0]
    ELSE [result |-> "value", value |-> Get(d, item)]

\* the variables a statement on a DotDict leaves alone
dictFrame == <<globals, skip_underscored, backup, active, heap, gBegin, nBegin,
               retry, log, block, ops, direct, begins>>

\* n[key] = value
ItemSet(s, key, value) ==
    /\ namespace' = [namespace EXCEPT ![s] = SetItem(@, key, value)]
    /\ obs' = [NoObs EXCEPT !.op = "setitem", !.sess = s, !.key = key,
                            !.value = value, !.nPre = namespace[s]]
    /\ UNCHANGED dictFrame

\* del n[key]
ItemDel(s, key) ==
    /\ namespace' = [namespace EXCEPT ![s] = IF Has(@, key) THEN DelItem(@, key) ELSE @]
    /\ obs' = [NoObs EXCEPT !.op = "delitem", !.sess = s, !.key = key,
                            !.result = IF Has(namespace[s], key) THEN "none" ELSE "KeyError",
                            !.nPre = namespace[s]]
    /\ UNCHANGED dictFrame

\* n.key
AttrGet(s, key) ==
    /\ obs' = [NoObs EXCEPT !.op = "getattr", !.sess = s, !.key = key,
                            !.result = GetAttr(namespace[s], key).result,
                            !.value = GetAttr(namespace[s], key).value,
                            !.nPre = namespace[s]]
    /\ UNCHANGED namespace
    /\ UNCHANGED dictFrame

\* n.key = value: line 14, __setattr__ = dict.__setitem__
AttrSet(s, key, value) ==
    /\ namespace' = [namespace EXCEPT ![s] = SetItem(@, key, value)]
    /\ obs' = [NoObs EXCEPT !.op = "setattr", !.sess = s, !.key = key,
                            !.value = value, !.nPre = namespace[s]]
    /\ UNCHANGED dictFrame

\* del n.key: line 15, __delattr__ = dict.__delitem__
AttrDel(s, key) ==
    /\ namespace' = [namespace EXCEPT ![s] = IF Has(@, key) THEN DelItem(@, key) ELSE @]
    /\ obs' = [NoObs EXCEPT !.op = "delattr", !.sess = s, !.key = key,
                            !.result = IF Has(namespace[s], key) THEN "none" ELSE "KeyError",
                            !.nPre = namespace[s]]
    /\ UNCHANGED dictFrame

NextDot ==
    \/ \E s \in Callers, key \in DotKeys, value \in Vals : ItemSet(s, key, value)
    \/ \E s \in Callers, key \in DotKeys : ItemDel(s, key)
    \/ \E s \in Callers, key \in DotKeys : AttrGet(s, key)
    \/ \E s \in Callers, key \in DotKeys, value \in Vals : AttrSet(s, key, value)
    \/ \E s \in Callers, key \in DotKeys : AttrDel(s, key)

SpecDot == Init /\ [][NextDot]_vars

TypeOK ==
    /\ ops \in 0..MaxOps
    /\ direct \in 0..MaxDirect
    /\ begins \in 0..MaxBegins
    /\ \A s \in Sess : Cardinality(DictKeys(namespace[s])) = Len(namespace[s])
    /\ Cardinality(DictKeys(globals)) = Len(globals)

\* ----------------------------------------------------------------- claims
AfterBegin == obs.op = "begin"
AfterEnd == obs.op = "end"

\* keys bound in both the namespace and globals when the last call started
SharedPre == DictKeys(obs.nPre) \cap DictKeys(obs.gPre)

\* key is bound in d to a value other than the one old binds it to
Rebound(d, old, key) == Has(d, key) /\ Has(old, key) /\ Get(d, key) # Get(old, key)

\* C1: if a key of the namespace is already a key of globals, begin raises
\* Collision and globals has exactly the bindings it had before begin.
C1_CollisionLeavesGlobals ==
    (AfterBegin /\ SharedPre # {}) =>
        /\ obs.seen = "Collision"
        /\ SameBindings(globals, obs.gPre)

\* C2: after end of a session whose begin succeeded, whatever the block did
\* and whether end returned or raised, globals has the key set and the value
\* identities it had immediately before begin.
C2_GlobalsRestored ==
    AfterEnd => SameBindings(globals, obs.gBegin)

\* keys the block bound that were in neither globals nor the namespace
\* before begin
AddedKeys == DictKeys(obs.gPre) \ (DictKeys(obs.gBegin) \cup DictKeys(obs.nBegin))

\* C2 witness: end raised with an exception pending, after the block bound a
\* new key and rebound a pre-existing global
C2_Witness ==
    /\ AfterEnd /\ obs.raised /\ obs.pending = "E"
    /\ AddedKeys # {}
    /\ \E key \in Keys : Rebound(obs.gPre, obs.gBegin, key)

\* C2 witness of the normal return: end returned after the block bound a new
\* key and deleted a pre-existing global
C2_WitnessReturn ==
    /\ AfterEnd /\ ~obs.raised
    /\ AddedKeys # {}
    /\ DictKeys(obs.gBegin) \ DictKeys(obs.gPre) # {}

\* C3: if a key that was in globals before begin is bound to a different
\* value when the block exits, end raises ImmutableGlobal and globals is
\* restored to its bindings before begin.
C3_RebindingRaises ==
    (AfterEnd /\ \E key \in Keys : Rebound(obs.gPre, obs.gBegin, key)) =>
        /\ obs.seen = "ImmutableGlobal"
        /\ SameBindings(globals, obs.gBegin)

\* C3 witness: end ran on a block that rebound a pre-existing global and
\* also bound a new key
C3_Witness ==
    /\ AfterEnd
    /\ \E key \in Keys : Rebound(obs.gPre, obs.gBegin, key)
    /\ AddedKeys # {}

\* key was bound inside the block: it was neither in globals nor in the
\* namespace before begin and is bound in globals when the block exits
Introduced(key) ==
    /\ ~Has(obs.gBegin, key)
    /\ ~Has(obs.nBegin, key)
    /\ Has(obs.gPre, key)

\* the namespace now maps key to the value globals held at block exit
Persisted(key) ==
    /\ Has(namespace[obs.sess], key)
    /\ Get(namespace[obs.sess], key) = Get(obs.gPre, key)

\* C4 as stated: a new key without a leading underscore bound to v at block
\* exit is mapped to v by the namespace after end.
C4_NewKeyPersisted_Original ==
    AfterEnd =>
        \A key \in Keys :
            (Introduced(key) /\ ~StartsWithUnderscore(key)) => Persisted(key)

\* C4 amended: a new key without a leading underscore bound to v at block
\* exit is mapped to v by the namespace after end, provided end returns
\* without raising ImmutableGlobal.
C4_NewKeyPersisted ==
    (AfterEnd /\ ~obs.raised) =>
        \A key \in Keys :
            (Introduced(key) /\ ~StartsWithUnderscore(key)) => Persisted(key)

\* C4 witness: end returned with the default flag after the block bound a
\* new key without a leading underscore
C4_Witness ==
    /\ AfterEnd /\ ~obs.raised /\ skip_underscored[obs.sess]
    /\ \E key \in Keys : Introduced(key) /\ ~StartsWithUnderscore(key)
                         /\ Get(obs.gPre, key) = 2

\* C5 as stated: an underscore-prefixed key introduced inside the block is
\* not in the namespace after end when skip_underscored is true, and is in
\* the namespace with its block-exit value when skip_underscored is false.
C5_Underscored_Original ==
    AfterEnd =>
        \A key \in Keys :
            (Introduced(key) /\ StartsWithUnderscore(key)) =>
                IF skip_underscored[obs.sess]
                THEN ~Has(obs.nPre, key) => ~Has(namespace[obs.sess], key)
                ELSE Persisted(key)

\* C5 amended: an underscore-prefixed key introduced inside the block is not
\* in the namespace after end when skip_underscored is true; when
\* skip_underscored is false and end returns without raising
\* ImmutableGlobal, the namespace holds the key with its block-exit value.
C5_Underscored ==
    AfterEnd =>
        \A key \in Keys :
            (Introduced(key) /\ StartsWithUnderscore(key)) =>
                IF skip_underscored[obs.sess]
                THEN ~Has(obs.nPre, key) => ~Has(namespace[obs.sess], key)
                ELSE ~obs.raised => Persisted(key)

\* C5 witness: end returned with skip_underscored false after the block
\* introduced an underscore-prefixed key
C5_Witness ==
    /\ AfterEnd /\ ~obs.raised /\ ~skip_underscored[obs.sess]
    /\ \E key \in Keys : Introduced(key) /\ StartsWithUnderscore(key)

\* C5 witness of the default flag: end ran with skip_underscored true after
\* the block introduced an underscore-prefixed key
C5_WitnessSkip ==
    /\ AfterEnd /\ skip_underscored[obs.sess]
    /\ \E key \in Keys : Introduced(key) /\ StartsWithUnderscore(key)
                         /\ ~Has(obs.nPre, key)

\* C6: a key that was in the namespace at begin and is absent from globals
\* at block exit is not in the namespace after end, whether end returns or
\* raises.
C6_DeletionPersisted ==
    AfterEnd =>
        \A key \in Keys :
            (Has(obs.nBegin, key) /\ ~Has(obs.gPre, key)) =>
                ~Has(namespace[obs.sess], key)

\* C6 witness: end raised after the block deleted a namespace key that the
\* namespace still held when end started
C6_Witness ==
    /\ AfterEnd /\ obs.raised
    /\ \E key \in Keys : Has(obs.nBegin, key) /\ ~Has(obs.gPre, key)
                         /\ Has(obs.nPre, key)

\* C6 witness of the normal return
C6_WitnessReturn ==
    /\ AfterEnd /\ ~obs.raised
    /\ \E key \in Keys : Has(obs.nBegin, key) /\ ~Has(obs.gPre, key)
                         /\ Has(obs.nPre, key)

\* C7 as stated: a key that was in the namespace at begin, with or without a
\* leading underscore and under either flag, and that the block rebound to a
\* new value is mapped to that value by the namespace after end.
C7_UpdatePersisted_Original ==
    AfterEnd =>
        \A key \in Keys :
            Rebound(obs.gPre, obs.nBegin, key) => Persisted(key)

\* C7 amended: a key that was in the namespace at begin and that the block
\* rebound to a new value is mapped to that value by the namespace after
\* end, provided end returns without raising ImmutableGlobal and the key is
\* not underscore-prefixed while skip_underscored is true.
C7_UpdatePersisted ==
    (AfterEnd /\ ~obs.raised) =>
        \A key \in Keys :
            (/\ Rebound(obs.gPre, obs.nBegin, key)
             /\ ~(skip_underscored[obs.sess] /\ StartsWithUnderscore(key))) =>
                Persisted(key)

\* C7 witness: end returned with skip_underscored false after the block
\* rebound an underscore-prefixed namespace key
C7_Witness ==
    /\ AfterEnd /\ ~obs.raised /\ ~skip_underscored[obs.sess]
    /\ \E key \in Keys : Rebound(obs.gPre, obs.nBegin, key)
                         /\ StartsWithUnderscore(key)

\* C7 witness of the default flag: a namespace key without a leading
\* underscore was rebound
C7_WitnessPlain ==
    /\ AfterEnd /\ ~obs.raised /\ skip_underscored[obs.sess]
    /\ \E key \in Keys : Rebound(obs.gPre, obs.nBegin, key)
                         /\ ~StartsWithUnderscore(key)

\* C8: end never suppresses an exception propagating out of the block: with
\* an exception E pending the caller sees E itself or ImmutableGlobal caused
\* by E; with none pending it sees normal completion or ImmutableGlobal
\* without a cause.
C8_NeverSuppresses ==
    AfterEnd =>
        IF obs.pending # "None"
        THEN \/ ~obs.raised /\ obs.seen = obs.pending
             \/ obs.raised /\ obs.seen = "ImmutableGlobal" /\ obs.cause = obs.pending
        ELSE \/ ~obs.raised /\ obs.seen = "ok"
             \/ obs.raised /\ obs.seen = "ImmutableGlobal" /\ obs.cause = "None"

\* C8 witness: end returned while an exception was pending
C8_Witness == AfterEnd /\ obs.pending = "E" /\ ~obs.raised

\* C8 witness: end raised while an exception was pending
C8_WitnessChained == AfterEnd /\ obs.pending = "E" /\ obs.raised

\* C9: when no key of the namespace is a key of globals, immediately after
\* begin the keys of globals are the disjoint union of its former keys and
\* the namespace's keys, every namespace key is bound in globals to the
\* namespace's value, every former binding is unchanged and the namespace
\* is unchanged.
C9_BeginInjects ==
    (AfterBegin /\ SharedPre = {}) =>
        /\ obs.seen = "ok"
        /\ DictKeys(globals) = DictKeys(obs.gPre) \cup DictKeys(obs.nPre)
        /\ \A key \in DictKeys(obs.nPre) : Get(globals, key) = Get(obs.nPre, key)
        /\ \A key \in DictKeys(obs.gPre) : Get(globals, key) = Get(obs.gPre, key)
        /\ namespace[obs.sess] = obs.nPre

\* C9 witness: begin succeeded with two namespace keys and a non-empty
\* globals
C9_Witness ==
    /\ AfterBegin /\ SharedPre = {}
    /\ Len(obs.nPre) = 2 /\ Len(obs.gPre) > 0

\* C10: after begin raised Collision, once the caller has removed from the
\* namespace every key it shared with globals at that begin and changed
\* nothing else, the next begin with that namespace succeeds.
C10_RetrySucceeds ==
    (AfterBegin /\ obs.retried) => obs.seen = "ok"

\* the namespace of the session that just ended, as it is now
NsNow == namespace[obs.sess]

\* C12: deletion reconciliation at end removes from the namespace only keys
\* that were in it at begin and are absent from globals at end: a key the
\* caller added to the namespace directly during the block, without binding
\* it in globals, is still in the namespace after end.
C12_DeletionOnlyBeginKeys ==
    AfterEnd =>
        \A key \in Keys :
            (/\ ~Has(obs.nBegin, key)
             /\ Has(obs.nPre, key)
             /\ ~Has(obs.gPre, key)) => Has(NsNow, key)

\* C14: a session whose block runs no statement leaves the namespace with
\* the same keys, values and key order, leaves globals as before begin and
\* raises no error; and every namespace key that at block exit is bound, in
\* globals and in the namespace, to its begin-time value keeps that value in
\* the namespace after end.
C14_NoOpSession ==
    AfterEnd =>
        /\ ~obs.block.dirty =>
              /\ NsNow = obs.nBegin
              /\ globals = obs.gBegin
              /\ ~obs.raised
        /\ \A key \in DictKeys(obs.nBegin) :
              (/\ Has(obs.gPre, key) /\ Get(obs.gPre, key) = Get(obs.nBegin, key)
               /\ Has(obs.nPre, key) /\ Get(obs.nPre, key) = Get(obs.nBegin, key)) =>
                  Has(NsNow, key) /\ Get(NsNow, key) = Get(obs.nBegin, key)

\* C14 witness: end ran right after begin, on a namespace of two keys and a
\* non-empty globals
C14_Witness ==
    /\ AfterEnd /\ ~obs.block.dirty
    /\ Len(obs.nBegin) = 2 /\ Len(obs.gBegin) > 0

\* C14 witness of the general part: end raised in a block that rebound one
\* namespace key and left another alone
C14_WitnessUntouched ==
    /\ AfterEnd /\ obs.raised
    /\ \E k1, k2 \in DictKeys(obs.nBegin) :
          /\ Rebound(obs.gPre, obs.nBegin, k1)
          /\ Has(obs.gPre, k2) /\ Get(obs.gPre, k2) = Get(obs.nBegin, k2)

\* position in globals, at block exit, of a pre-existing key bound to another
\* object than before begin
Offending(i) ==
    /\ Has(obs.gBegin, obs.gPre[i].k)
    /\ obs.gPre[i].v # Get(obs.gBegin, obs.gPre[i].k)

FirstOffender ==
    CHOOSE i \in 1..Len(obs.gPre) : Offending(i) /\ \A j \in 1..(i - 1) : ~Offending(j)

\* the namespace at block exit without the keys that globals no longer has
NsPruned == SelectSeq(obs.nPre, LAMBDA e : Has(obs.gPre, e.k))

\* C17: when end raises ImmutableGlobal the namespace is partially
\* reconciled: every namespace key absent from globals is deleted, and the
\* new and updated bindings written are exactly those of the keys that
\* precede the first offending key in globals' order, are not pre-existing
\* and are not skipped; none is written when the offending key was never
\* deleted from globals during the block.
C17_PartialReconciliation ==
    (AfterEnd /\ obs.raised) =>
        /\ \A key \in Keys : ~Has(obs.gPre, key) => ~Has(NsNow, key)
        /\ \A i \in 1..Len(obs.gPre) :
              LET key == obs.gPre[i].k
                  copied == /\ i < FirstOffender
                            /\ ~Has(obs.gBegin, key)
                            /\ ~(skip_underscored[obs.sess] /\ StartsWithUnderscore(key))
              IN  IF copied
                  THEN Has(NsNow, key) /\ Get(NsNow, key) = obs.gPre[i].v
                  ELSE /\ Has(NsNow, key) <=> Has(NsPruned, key)
                       /\ Has(NsNow, key) /\ Has(NsPruned, key) =>
                              Get(NsNow, key) = Get(NsPruned, key)
        /\ obs.gPre[FirstOffender].k \notin obs.block.deleted => NsNow = NsPruned

\* C17 witness: end raised after it had written a new value into the
\* namespace
C17_Witness ==
    /\ AfterEnd /\ obs.raised
    /\ \E key \in DictKeys(NsNow) :
          ~Has(obs.nPre, key) \/ Get(NsNow, key) # Get(obs.nPre, key)

\* C17 witness: end raised at a key that kept its place, in a block that
\* bound a new key and deleted a namespace key
C17_WitnessInPlace ==
    /\ AfterEnd /\ obs.raised
    /\ obs.gPre[FirstOffender].k \notin obs.block.deleted
    /\ AddedKeys # {}
    /\ NsNow # obs.nPre

\* C18: while the caller has never written the namespace directly, after
\* every end of a session whose begin succeeded the key sets of the
\* namespace and of globals are disjoint, and a begin that follows such an
\* end does not raise Collision.
C18_DisjointAfterEnd ==
    direct = 0 =>
        /\ AfterEnd => DictKeys(NsNow) \cap DictKeys(globals) = {}
        /\ (AfterBegin /\ obs.afterEnd) => obs.seen = "ok"

\* C18 witness: a second session began right after the first one ended, with
\* a non-empty namespace and a non-empty globals
C18_Witness ==
    /\ direct = 0 /\ AfterBegin /\ obs.afterEnd
    /\ obs.nPre # <<>> /\ obs.gPre # <<>>

\* C18 witness: end raised after it had written a new key into the namespace
C18_WitnessEnd ==
    /\ direct = 0 /\ AfterEnd /\ obs.raised
    /\ DictKeys(NsNow) \ DictKeys(obs.nPre) # {}

\* C19: with skip_underscored true, an underscore-prefixed key that is in
\* the namespace at begin is bound in globals by begin; if the block rebinds
\* it the namespace keeps the begin-time value after end; if the block
\* deletes it from globals it is not in the namespace after end.
C19_UnderscoredNamespaceKey ==
    skip_underscored[obs.sess] =>
        /\ (AfterBegin /\ ~obs.raised) =>
              \A key \in DictKeys(obs.nPre) :
                  StartsWithUnderscore(key) =>
                      Has(globals, key) /\ Get(globals, key) = Get(obs.nPre, key)
        /\ AfterEnd =>
              \A key \in DictKeys(obs.nBegin) :
                  StartsWithUnderscore(key) =>
                      /\ (/\ Rebound(obs.gPre, obs.nBegin, key)
                          /\ Has(obs.nPre, key)
                          /\ Get(obs.nPre, key) = Get(obs.nBegin, key)) =>
                              Has(NsNow, key) /\ Get(NsNow, key) = Get(obs.nBegin, key)
                      /\ ~Has(obs.gPre, key) => ~Has(NsNow, key)

\* C19 witness: end ran with skip_underscored true after the block rebound
\* an underscore-prefixed namespace key
C19_Witness ==
    /\ AfterEnd /\ skip_underscored[obs.sess]
    /\ \E key \in DictKeys(obs.nBegin) :
          StartsWithUnderscore(key) /\ Rebound(obs.gPre, obs.nBegin, key)
          /\ Has(obs.nPre, key)

\* C19 witness: end ran with skip_underscored true after the block deleted
\* an underscore-prefixed namespace key from globals
C19_WitnessDeleted ==
    /\ AfterEnd /\ skip_underscored[obs.sess]
    /\ \E key \in DictKeys(obs.nBegin) :
          StartsWithUnderscore(key) /\ ~Has(obs.gPre, key) /\ Has(obs.nPre, key)

\* the other keys of the namespace are bound as before the last statement
OthersKept ==
    \A key \in (DictKeys(obs.nPre) \cup DictKeys(NsNow)) \ {obs.key} :
        /\ Has(obs.nPre, key) /\ Has(NsNow, key)
        /\ Get(NsNow, key) = Get(obs.nPre, key)

\* C11: for every identifier k, attribute read on k returns the mapped value
\* when k is a key and fails with NameNotFound otherwise; attribute write on
\* k makes k a key mapped to the written value and attribute delete on k
\* makes k cease to be a key, leaving the other keys alone as the item
\* operations do.
C11_AttributeAccess ==
    /\ obs.op = "getattr" =>
          IF Has(NsNow, obs.key)
          THEN obs.result = "value" /\ obs.value = Get(NsNow, obs.key)
          ELSE obs.result = "KeyError"
    /\ obs.op \in {"setattr", "setitem"} =>
          Has(NsNow, obs.key) /\ Get(NsNow, obs.key) = obs.value /\ OthersKept
    /\ obs.op \in {"delattr", "delitem"} =>
          /\ ~Has(NsNow, obs.key) /\ OthersKept
          /\ obs.result = "KeyError" <=> ~Has(obs.nPre, obs.key)

\* C13: end raises ImmutableGlobal exactly when some key that was in
\* globals before begin is, at block exit, in globals and bound to another
\* object than before begin, whatever the objects hold; and a pre-existing
\* key that the block deleted is bound as before begin after end.
C13_RaisesIffIdentityDiffers ==
    AfterEnd =>
        /\ obs.raised <=>
              \E key \in DictKeys(obs.gBegin) : Rebound(obs.gPre, obs.gBegin, key)
        /\ \A key \in DictKeys(obs.gBegin) :
              ~Has(obs.gPre, key) =>
                  Has(globals, key) /\ Get(globals, key) = Get(obs.gBegin, key)

\* C13 witness: end raised on a pre-existing key rebound to a distinct
\* object of equal content
C13_Witness ==
    /\ AfterEnd /\ obs.raised
    /\ \A key \in DictKeys(obs.gBegin) :
          Rebound(obs.gPre, obs.gBegin, key) =>
              heap[Get(obs.gPre, key)] = heap[Get(obs.gBegin, key)]

\* C13 witness: end returned although the object of a pre-existing key was
\* changed in place during the block
C13_WitnessMutated ==
    /\ AfterEnd /\ ~obs.raised
    /\ \E key \in DictKeys(obs.gBegin) :
          Has(obs.gPre, key) /\ Get(obs.gPre, key) \in obs.block.mutated

\* C13 witness: end returned although a pre-existing key was rebound during
\* the block, since it was bound back to the original object
C13_WitnessBoundBack ==
    /\ AfterEnd /\ ~obs.raised
    /\ \E key \in DictKeys(obs.gBegin) \cap obs.block.rebound :
          Has(obs.gPre, key) /\ key \notin obs.block.deleted

\* C13 witness: end returned after the block deleted a pre-existing key
C13_WitnessDeleted ==
    /\ AfterEnd /\ ~obs.raised
    /\ DictKeys(obs.gBegin) \ DictKeys(obs.gPre) # {}

\* the sessions since globals was last free of sessions: X began, Y began,
\* then they ended in the order first, second, the second end being the
\* last call
Ended(first, second) ==
    /\ AfterEnd
    /\ Len(obs.log) = 4
    /\ obs.log[1].op = "begin" /\ obs.log[2].op = "begin"
    /\ obs.log[3].op = "end" /\ obs.log[4].op = "end"
    /\ obs.log[1].sess # obs.log[2].sess
    /\ obs.log[3].sess = obs.log[first].sess
    /\ obs.log[4].sess = obs.log[second].sess

\* X began first, Y began inside X
SessX == obs.log[1].sess
SessY == obs.log[2].sess

\* the backup of Y holds every key that X injected and that globals still
\* had when Y began
BackupHasInjected ==
    \A key \in DictKeys(obs.nBegins[SessX]) \cap DictKeys(obs.gBegins[SessY]) :
        Has(backup[SessY], key)

\* Y began inside X's block and ended before X, both on non-empty namespaces
NestedCase ==
    /\ Ended(2, 1)
    /\ obs.nBegins[SessX] # <<>>
    /\ obs.nBegins[SessY] # <<>>

\* C15 as stated: when B begins inside A's block and ends before A ends, B's
\* backup includes A's injected keys and after A's end globals is not equal
\* to its state immediately before A's begin.
C15_NestingCorrupts_Original ==
    NestedCase =>
        /\ BackupHasInjected
        /\ ~SameBindings(globals, obs.gBegins[SessX])

\* C15 amended: when B begins inside A's block and ends before A ends, B's
\* backup includes A's injected keys, and after A's end globals is equal to
\* its state immediately before A's begin.
C15_NestingRestores ==
    NestedCase =>
        /\ BackupHasInjected
        /\ SameBindings(globals, obs.gBegins[SessX])

\* C15 witness: both namespaces were non-empty, B's backup held a key that A
\* injected, and the blocks ran statements
C15_Witness ==
    /\ NestedCase
    /\ DictKeys(obs.nBegins[SessX]) \cap DictKeys(backup[SessY]) # {}
    /\ obs.block.dirty

\* C16: when A and B overlap and end in the order A, B, with non-empty
\* disjoint namespaces and no statement in the blocks, then after both ends
\* globals holds its bindings from before A's begin plus NA's keys bound to
\* their begin-time values, NB has lost every key it had at begin, NA has
\* NB's entries except those A skips, and neither end raised.
C16_OverlapLeaksNamespace ==
    (/\ Ended(1, 2)
     /\ ~obs.block.dirty
     /\ obs.nBegins[SessX] # <<>>
     /\ obs.nBegins[SessY] # <<>>) =>
        /\ DictKeys(globals) =
              DictKeys(obs.gBegins[SessX]) \cup DictKeys(obs.nBegins[SessX])
        /\ \A key \in DictKeys(obs.nBegins[SessX]) :
              Get(globals, key) = Get(obs.nBegins[SessX], key)
        /\ \A key \in DictKeys(obs.gBegins[SessX]) :
              Get(globals, key) = Get(obs.gBegins[SessX], key)
        /\ ~SameBindings(globals, obs.gBegins[SessX])
        /\ DictKeys(namespace[SessY]) \cap DictKeys(obs.nBegins[SessY]) = {}
        /\ \A key \in DictKeys(obs.nBegins[SessX]) :
              Has(namespace[SessX], key)
              /\ Get(namespace[SessX], key) = Get(obs.nBegins[SessX], key)
        /\ \A key \in DictKeys(obs.nBegins[SessY]) :
              IF skip_underscored[SessX] /\ StartsWithUnderscore(key)
              THEN ~Has(namespace[SessX], key)
              ELSE Has(namespace[SessX], key)
                   /\ Get(namespace[SessX], key) = Get(obs.nBegins[SessY], key)
        /\ ~obs.log[3].raised /\ ~obs.log[4].raised

\* C16 witness: the two sessions overlapped without statements, on a
\* non-empty globals, and NA took an entry of NB
C16_Witness ==
    /\ Ended(1, 2)
    /\ ~obs.block.dirty
    /\ obs.nBegins[SessX] # <<>>
    /\ obs.gBegins[SessX] # <<>>
    /\ DictKeys(obs.nBegins[SessY]) \cap DictKeys(namespace[SessX]) # {}

\* C16 witness: NB's only entry was one that A skips
C16_WitnessSkipped ==
    /\ Ended(1, 2)
    /\ ~obs.block.dirty
    /\ obs.nBegins[SessX] # <<>>
    /\ \E key \in DictKeys(obs.nBegins[SessY]) :
          skip_underscored[SessX] /\ StartsWithUnderscore(key)
====
